---- MODULE Spec2Model ----
(***************************************************************************)
(* EduManager: the grade-recording views of app_principal (views.py), the  *)
(* forms they bind (forms.py) and the tables they persist to (models.py).  *)
(* The database is the state; every view is an action; the HTTP response   *)
(* of the last request is kept in resp.                                    *)
(***************************************************************************)
EXTENDS Integers, FiniteSets, Sequences, TLC

\* ------------------------------------------------------------------ bounds
MaxMaterias == 2
MaxAlumnos == 1
MaxActividades == 1
MaxNotas == 2
MaxReq == 2
\* students in the runs that are about students only
MaxAlumnosCorreo == 2

\* ------------------------------------------------------------- input sets
Profesores == {"T1", "T2"}
Metodos == {"GET", "POST"}
\* submitted text of a CharField; "" is the blank submission
Nombres == {"", "n1", "n2"}
\* submitted text of Alumno.correo; "" is the blank submission
Correos == {"", "c1", "c2"}

MateriaIds == 1..MaxMaterias
AlumnoIds == 1..MaxAlumnos
ActividadIds == 1..MaxActividades
NotaIds == 1..MaxNotas

\* A submitted "nota" text: the empty string, a non-numeric text, the text
\* "nan", or a decimal numeral whose value is milli/1000.
NotaStr(t, milli) == [t |-> t, milli |-> milli]
NotaStrs ==
    {NotaStr("vacio", 0), NotaStr("texto", 0), NotaStr("nan", 0)}
        \cup {NotaStr("num", m) : m \in {-10, 0, 8700, 9999, 10000, 10010}}

\* a blank "nota", and a blank "alumno" or "actividad", in the POST data
Vacio == NotaStr("vacio", 0)
SinId == 0
\* a worker that serves no registro_de_notas POST
Libre == [pc |-> "libre", u |-> "", a |-> SinId, k |-> SinId, s |-> Vacio]

\* ------------------------------------------------------------------ state
VARIABLES
    materias,      \* Materia rows: id -> [profesor, nombre]
    alumnos,       \* Alumno rows: id -> [correo, materias (the M2M rows)]
    actividades,   \* Actividad rows: id -> [materia, nombre]
    notas,         \* Nota rows: id -> [alumno, actividad, nota (hundredths)]
    seq,           \* last AUTOINCREMENT id given out, per table
    reqs,          \* registro_de_notas POST requests in flight, per worker
    resp           \* the response to the last request handled

vars == <<materias, alumnos, actividades, notas, seq, reqs, resp>>
db == <<materias, alumnos, actividades, notas, seq>>
\* the database as one value, and a view's result: the database it leaves
\* and the response it gives
DB == [materias |-> materias, alumnos |-> alumnos, actividades |-> actividades,
       notas |-> notas, seq |-> seq]
Res(d, r) == [db |-> d, resp |-> r]

\* request.user of a request that carries no session
AnonymousUser == "anon"
\* @login_required: a request without an authenticated user is redirected to
\* LOGIN_URL and the view's body does not run
login_required_sinDecorador(d, u, r) == r
login_required(d, u, r) == IF u = AnonymousUser THEN Res(d, "login") ELSE r

\* ------------------------------------------------------- function helpers
Put(f, k, v) == [i \in DOMAIN f \cup {k} |-> IF i = k THEN v ELSE f[i]]
Drop(f, ks) == [i \in DOMAIN f \ ks |-> f[i]]

\* -------------------------------------------------- ownership-scoped sets
\* Materia.objects.filter(profesor=request.user)
MisMaterias(M, u) == {m \in DOMAIN M : M[m].profesor = u}
\* Alumno.objects.filter(materias__in=mis_materias): the JOIN of alumno with
\* its alumno_materias rows, one row <<alumno, materia>> per membership in one
\* of the user's materias
AlumnosJoin(M, A, u) ==
    {r \in (DOMAIN A) \X MisMaterias(M, u) : r[2] \in A[r[1]].materias}
\* .distinct(): each alumno once
distinct(filas) == {r[1] : r \in filas}
\* Alumno.objects.filter(materias__in=mis_materias).distinct()
MisAlumnos(M, A, u) == distinct(AlumnosJoin(M, A, u))
\* Actividad.objects.filter(materia__in=mis_materias)
MisActividades(M, K, u) == {k \in DOMAIN K : K[k].materia \in MisMaterias(M, u)}
\* Nota.objects.filter(actividad__materia__in=mis_materias)
MisNotas(M, K, N, u) == {n \in DOMAIN N : N[n].actividad \in MisActividades(M, K, u)}

\* ------------------------------------------------ numbers and conversions
\* Nota.nota = models.DecimalField(max_digits=5, decimal_places=2)
max_digits == 5
decimal_places == 2

Abs(n) == IF n < 0 THEN -n ELSE n

\* decimal places written by the shortest numeral of milli/1000
Decimales(milli) ==
    IF milli % 1000 = 0 THEN 0
    ELSE IF milli % 100 = 0 THEN 1
    ELSE IF milli % 10 = 0 THEN 2
    ELSE 3

\* digits written before the decimal point (none for a value below 1)
Enteros(milli) ==
    LET n == Abs(milli) \div 1000
    IN  IF n = 0 THEN 0
        ELSE IF n < 10 THEN 1
        ELSE IF n < 100 THEN 2
        ELSE IF n < 1000 THEN 3
        ELSE 4

\* DecimalValidator(max_digits, decimal_places) on a Decimal that writes
\* `decimales` decimal places and `enteros` whole digits
DecimalValidator(enteros, decimales) ==
    /\ enteros + decimales <= max_digits
    /\ decimales <= decimal_places
    /\ enteros <= max_digits - decimal_places

\* Python float(nota_str): ValueError on a text that is no numeral
FloatOk(s) == s.t \in {"num", "nan"}
\* `nota_val < 0 or nota_val > 10`; every comparison with NaN is False
FloatFueraDeRango(s) == s.t = "num" /\ (s.milli < 0 \/ s.milli > 10000)
\* `0 <= nueva_nota <= 10`
FloatEnRango(s) == s.t = "num" /\ 0 <= s.milli /\ s.milli <= 10000

\* forms.DecimalField.clean on the submitted text: required, a finite
\* Decimal, and the field's DecimalValidator; the value in hundredths
FormDecimalOk(s) ==
    /\ s.t = "num"
    /\ DecimalValidator(Enteros(s.milli), Decimales(s.milli))
FormDecimal(s) == s.milli \div 10

\* A binary float holds milli/1000 exactly iff the fraction is a multiple
\* of 1/8 (1000 = 2^3 * 5^3).
FloatExacto(milli) == milli % 125 = 0
\* decimal places of Context(prec=max_digits).create_decimal_from_float(v):
\* the exact value when it fits, else the value rounded to max_digits
\* significant digits, zeros included
DecimalesDesdeFloat(milli) ==
    IF FloatExacto(milli) THEN Decimales(milli)
    ELSE IF Abs(milli) >= 1000 THEN max_digits - Enteros(milli)
    ELSE IF Abs(milli) >= 100 THEN max_digits
    ELSE IF Abs(milli) >= 10 THEN max_digits + 1
    ELSE max_digits + 2
\* models.DecimalField.clean of a float inside Model.full_clean
ModelDecimalOk(milli) ==
    DecimalValidator(Enteros(milli), DecimalesDesdeFloat(milli))

\* Nota.clean written with strict comparisons
Nota_clean_estricto(cents) == ~(cents <= 0 \/ cents >= 1000)
\* Nota.clean: ValidationError unless 0 <= nota <= 10 (nota in hundredths)
Nota_clean(cents) == ~(cents < 0 \/ cents > 1000)

\* ----------------------------------------------- registro_de_notas, POST

\* Nota.objects.filter(alumno_id=a, actividad_id=k).exists()
ExisteNota(N, a, k) == \E n \in DOMAIN N : N[n].alumno = a /\ N[n].actividad = k

\* The manual validation that precedes the form: the message it ends the
\* request with, or "pasa".
\* the manual validation without its third step, the enrollment test
PreValidacion_sinInscripcion(A, K, N, a, k, s) ==
    IF s.t # "vacio" /\ FloatOk(s) /\ FloatFueraDeRango(s) THEN "rango"
    ELSE IF a # SinId /\ k # SinId /\ ExisteNota(N, a, k) THEN "duplicado"
    ELSE "pasa"
PreValidacion(A, K, N, a, k, s) ==
    IF s.t # "vacio" /\ FloatOk(s) /\ FloatFueraDeRango(s) THEN "rango"
    ELSE IF a # SinId /\ k # SinId
    THEN IF ExisteNota(N, a, k) THEN "duplicado"
         ELSE IF /\ a \in DOMAIN A
                 /\ k \in DOMAIN K
                 /\ K[k].materia \notin A[a].materias
              THEN "no_inscrito"
              ELSE "pasa"
    ELSE "pasa"

\* NotaForm(request.POST, user=u).is_valid(): a field is valid when its
\* value is in the queryset NotaForm.__init__ gave it.  The errors found:
\*   "alumno", "actividad"  invalid choice or blank
\*   "inscrito"             NotaForm.clean
\*   "rango"                Nota.clean, run by _post_clean
\*   "unico"                validate_unique on (alumno, actividad)
\* NotaForm whose __init__ leaves the two querysets as the model gives them
NotaFormErrores_sinFiltro(M, A, K, N, u, a, k, s) ==
    LET okA == a \in DOMAIN A
        okK == k \in DOMAIN K
    IN  (IF okA THEN {} ELSE {"alumno"})
        \cup (IF okK THEN {} ELSE {"actividad"})
        \cup (IF okA /\ okK /\ K[k].materia \notin A[a].materias
              THEN {"inscrito"} ELSE {})
        \cup (IF FormDecimalOk(s) /\ ~Nota_clean(FormDecimal(s))
              THEN {"rango"} ELSE {})
        \cup (IF okA /\ okK /\ ExisteNota(N, a, k) THEN {"unico"} ELSE {})
NotaFormErrores(M, A, K, N, u, a, k, s) ==
    LET okA == a \in MisAlumnos(M, A, u)
        okK == k \in MisActividades(M, K, u)
    IN  (IF okA THEN {} ELSE {"alumno"})
        \cup (IF okK THEN {} ELSE {"actividad"})
        \cup (IF okA /\ okK /\ K[k].materia \notin A[a].materias
              THEN {"inscrito"} ELSE {})
        \cup (IF FormDecimalOk(s) /\ ~Nota_clean(FormDecimal(s))
              THEN {"rango"} ELSE {})
        \cup (IF okA /\ okK /\ ExisteNota(N, a, k) THEN {"unico"} ELSE {})

\* The outcome of is_valid() and of the loop over form.errors:
\*   "500"          Nota.clean compares self.nota = None (the nota field
\*                  failed) with 0: TypeError, which no one catches
\*   "valido"       no error
\*   "form_error"   some error is shown as a message
\*   "form_unico"   only the uniqueness error, which the loop filters by text
NotaFormValidar(M, A, K, N, u, a, k, s) ==
    LET e == NotaFormErrores(M, A, K, N, u, a, k, s)
    IN  IF ~FormDecimalOk(s) THEN "500"
        ELSE IF e = {} THEN "valido"
        ELSE IF e = {"unico"} THEN "form_unico"
        ELSE "form_error"

\* form.save(): Nota.save runs clean(), then the INSERT, which the table's
\* UNIQUE (alumno, actividad) and its two foreign keys can refuse with an
\* IntegrityError; the view catches it as "Error inesperado".
\* the table without Meta.unique_together
InsertOk_sinUnique(A, K, N, a, k) ==
    /\ a \in DOMAIN A
    /\ k \in DOMAIN K
InsertOk(A, K, N, a, k) ==
    /\ a \in DOMAIN A
    /\ k \in DOMAIN K
    /\ ~ExisteNota(N, a, k)
NotaFormSave(A, K, N, a, k, cents) ==
    IF Nota_clean(cents) /\ InsertOk(A, K, N, a, k)
    THEN "ok:registro_de_notas"
    ELSE "inesperado"

\* The whole POST handled with no other request in between.
RegistroPost(M, A, K, N, u, a, k, s) ==
    LET pre == PreValidacion(A, K, N, a, k, s)
        val == NotaFormValidar(M, A, K, N, u, a, k, s)
    IN  IF pre # "pasa" THEN pre
        ELSE IF val # "valido" THEN val
        ELSE NotaFormSave(A, K, N, a, k, FormDecimal(s))

\* ------------------------------------------------------ editar_nota, POST
\* editar_nota writing what float() returned with neither the range test nor
\* full_clean()/save(), as Nota.objects.filter(id=nota_id).update(nota=...)
EditarNotaPost_update(s) ==
    IF ~FloatOk(s) THEN "invalido"
    ELSE IF s.t = "nan" THEN "rango"
    ELSE "ok:editar_nota"

\* The try block of editar_nota on the submitted text:
\*   "invalido"  float() raised ValueError
\*   "rango"     not 0 <= nueva_nota <= 10
\*   "500"       full_clean raised ValidationError, which is not caught
\*   "ok:editar_nota"  saved
EditarNotaPost(s) ==
    IF ~FloatOk(s) THEN "invalido"
    ELSE IF ~FloatEnRango(s) THEN "rango"
    ELSE IF ~ModelDecimalOk(s.milli) THEN "500"
    ELSE IF ~Nota_clean(s.milli \div 10) THEN "500"
    ELSE "ok:editar_nota"

\* ------------------------------------------------------------ the tables
\* a table with no rows
Vacia == [i \in {} |-> 0]

\* Nota.actividad with on_delete=DO_NOTHING on a database that does not
\* enforce the foreign key
NotasSinActividades_nada(N, ks) == N
\* on_delete=CASCADE from Nota.alumno and Nota.actividad
NotasSinAlumno(N, a) == Drop(N, {n \in DOMAIN N : N[n].alumno = a})
NotasSinActividades(N, ks) == Drop(N, {n \in DOMAIN N : N[n].actividad \in ks})
\* on_delete=CASCADE from Actividad.materia
ActividadesDeMateria(K, m) == {k \in DOMAIN K : K[k].materia = m}
\* the rows of the alumno_materias join table that name materia m go with it
SinMateria(A, m) == [a \in DOMAIN A |-> [A[a] EXCEPT !.materias = @ \ {m}]]

Init ==
    /\ materias = Vacia
    /\ alumnos = Vacia
    /\ actividades = Vacia
    /\ notas = Vacia
    /\ seq = [materia |-> 0, alumno |-> 0, actividad |-> 0, nota |-> 0]
    /\ reqs = [w \in 1..MaxReq |-> Libre]
    /\ resp = "ninguna"

\* a request handled from its first line to its response with no other
\* request in between: the database and the response become the view's result
Atender(r) ==
    /\ materias' = r.db.materias
    /\ alumnos' = r.db.alumnos
    /\ actividades' = r.db.actividades
    /\ notas' = r.db.notas
    /\ seq' = r.db.seq
    /\ resp' = r.resp
    /\ UNCHANGED reqs

\* --------------------------------------------------------- the read views
\* what each view puts in its template context
\* the dashboard counting the rows of the JOIN, without .distinct()
dashboard_contexto_sinDistinct(d, u) ==
    [materias |-> MisMaterias(d.materias, u),
     total_alumnos |-> Cardinality(AlumnosJoin(d.materias, d.alumnos, u))]
dashboard_contexto(d, u) ==
    [materias |-> MisMaterias(d.materias, u),
     total_alumnos |-> Cardinality(distinct(AlumnosJoin(d.materias, d.alumnos, u)))]
lista_alumnos_contexto(d, u) ==
    [materias |-> MisMaterias(d.materias, u),
     alumnos |-> MisAlumnos(d.materias, d.alumnos, u)]
lista_materias_contexto(d, u) == [materias |-> MisMaterias(d.materias, u)]
registro_de_notas_contexto(d, u) ==
    LET als == MisAlumnos(d.materias, d.alumnos, u)
        acts == MisActividades(d.materias, d.actividades, u)
    IN  [notas |-> MisNotas(d.materias, d.actividades, d.notas, u),
         alumnos |-> als,
         actividades |-> acts,
         actividad_materia_map |-> [k \in acts |-> d.actividades[k].materia],
         alumno_materias_map |-> [a \in als |-> d.alumnos[a].materias]]

\* the three list views render their page
Dashboard(d, u) == login_required(d, u, Res(d, "pagina"))
ListaAlumnos(d, u) == login_required(d, u, Res(d, "pagina"))
ListaMaterias(d, u) == login_required(d, u, Res(d, "pagina"))

dashboard(u) == Atender(Dashboard(DB, u))
lista_alumnos(u) == Atender(ListaAlumnos(DB, u))
lista_materias(u) == Atender(ListaMaterias(DB, u))

\* ------------------------------------------------------------ the alumnos
\* AlumnoForm(data, instance, user=u).is_valid(): correo given and unique
\* among the other rows, materias non-empty and within the user's own
\* AlumnoForm without the queryset that __init__ gives the materias field
AlumnoFormOk_sinFiltro(M, A, u, yo, correo, mats) ==
    /\ correo # ""
    /\ \A a \in DOMAIN A \ {yo} : A[a].correo # correo
    /\ mats # {}
    /\ mats \subseteq DOMAIN M
\* AlumnoForm looking for the correo among the user's own alumnos only
AlumnoFormOk_correoPropio(M, A, u, yo, correo, mats) ==
    /\ correo # ""
    /\ \A a \in MisAlumnos(M, A, u) \ {yo} : A[a].correo # correo
    /\ mats # {}
    /\ mats \subseteq MisMaterias(M, u)
AlumnoFormOk(M, A, u, yo, correo, mats) ==
    /\ correo # ""
    /\ \A a \in DOMAIN A \ {yo} : A[a].correo # correo
    /\ mats # {}
    /\ mats \subseteq MisMaterias(M, u)

CrearAlumno(d, u, metodo, correo, mats) ==
    login_required(d, u,
        IF metodo # "POST" THEN Res(d, "redirect")
        ELSE IF AlumnoFormOk(d.materias, d.alumnos, u, SinId, correo, mats)
        THEN Res([d EXCEPT !.alumnos = Put(@, d.seq.alumno + 1,
                                           [correo |-> correo, materias |-> mats]),
                           !.seq.alumno = @ + 1],
                 "ok:crear_alumno")
        ELSE Res(d, "error:crear_alumno"))

\* form.save() of a bound instance: the fields, and materias.set(mats)
EditarAlumno(d, u, metodo, id, correo, mats) ==
    login_required(d, u,
        IF id \notin DOMAIN d.alumnos THEN Res(d, "404")
        ELSE IF metodo # "POST" THEN Res(d, "pagina")
        ELSE IF AlumnoFormOk(d.materias, d.alumnos, u, id, correo, mats)
        THEN Res([d EXCEPT !.alumnos[id] = [correo |-> correo, materias |-> mats]],
                 "ok:editar_alumno")
        ELSE Res(d, "form_error"))

\* eliminar_alumno deleting on any method
EliminarAlumno_conGet(d, u, metodo, id) ==
    login_required(d, u,
        IF id \notin DOMAIN d.alumnos THEN Res(d, "404")
        ELSE Res([d EXCEPT !.alumnos = Drop(@, {id}),
                           !.notas = NotasSinAlumno(@, id)],
                 IF metodo = "POST" THEN "ok:eliminar_alumno" ELSE "redirect"))
EliminarAlumno(d, u, metodo, id) ==
    login_required(d, u,
        IF id \notin DOMAIN d.alumnos THEN Res(d, "404")
        ELSE IF metodo # "POST" THEN Res(d, "redirect")
        ELSE Res([d EXCEPT !.alumnos = Drop(@, {id}),
                           !.notas = NotasSinAlumno(@, id)],
                 "ok:eliminar_alumno"))

\* crear_alumno while fewer than `max` ids have been given out
crear_alumno_hasta(max, u, metodo, correo, mats) ==
    /\ CrearAlumno(DB, u, metodo, correo, mats).resp = "ok:crear_alumno"
           => seq.alumno < max
    /\ Atender(CrearAlumno(DB, u, metodo, correo, mats))
crear_alumno(u, metodo, correo, mats) ==
    crear_alumno_hasta(MaxAlumnos, u, metodo, correo, mats)
editar_alumno(u, metodo, id, correo, mats) ==
    Atender(EditarAlumno(DB, u, metodo, id, correo, mats))
eliminar_alumno(u, metodo, id) == Atender(EliminarAlumno(DB, u, metodo, id))

\* ----------------------------------------------------------- the materias
\* `profesor` is a "profesor" entry of the POST data: MateriaForm has the one
\* field nombre, so the entry is not read, and the view sets
\* materia.profesor = request.user before it saves.
\* crear_materia with "profesor" among the fields of MateriaForm
CrearMateria_delPost(d, u, metodo, nombre, profesor) ==
    login_required(d, u,
        IF metodo # "POST" THEN Res(d, "redirect")
        ELSE IF nombre # ""
        THEN Res([d EXCEPT !.materias = Put(@, d.seq.materia + 1,
                                            [profesor |-> profesor, nombre |-> nombre]),
                           !.seq.materia = @ + 1],
                 "ok:crear_materia")
        ELSE Res(d, "error:crear_materia"))
CrearMateria(d, u, metodo, nombre, profesor) ==
    login_required(d, u,
        IF metodo # "POST" THEN Res(d, "redirect")
        ELSE IF nombre # ""
        THEN Res([d EXCEPT !.materias = Put(@, d.seq.materia + 1,
                                            [profesor |-> u, nombre |-> nombre]),
                           !.seq.materia = @ + 1],
                 "ok:crear_materia")
        ELSE Res(d, "error:crear_materia"))

EditarMateria(d, u, metodo, id, nombre, profesor) ==
    login_required(d, u,
        IF id \notin MisMaterias(d.materias, u) THEN Res(d, "404")
        ELSE IF metodo # "POST" THEN Res(d, "redirect")
        ELSE IF nombre # ""
        THEN Res([d EXCEPT !.materias[id].nombre = nombre], "ok:editar_materia")
        ELSE Res(d, "error:editar_materia"))

EliminarMateria(d, u, metodo, id) ==
    login_required(d, u,
        IF id \notin MisMaterias(d.materias, u) THEN Res(d, "404")
        ELSE IF metodo # "POST" THEN Res(d, "redirect")
        ELSE Res([d EXCEPT
                    !.materias = Drop(@, {id}),
                    !.alumnos = SinMateria(@, id),
                    !.actividades = Drop(@, ActividadesDeMateria(d.actividades, id)),
                    !.notas = NotasSinActividades(@, ActividadesDeMateria(d.actividades, id))],
                 "ok:eliminar_materia"))

crear_materia(u, metodo, nombre, profesor) ==
    /\ CrearMateria(DB, u, metodo, nombre, profesor).resp = "ok:crear_materia"
           => seq.materia < MaxMaterias
    /\ Atender(CrearMateria(DB, u, metodo, nombre, profesor))
editar_materia(u, metodo, id, nombre, profesor) ==
    Atender(EditarMateria(DB, u, metodo, id, nombre, profesor))
eliminar_materia(u, metodo, id) == Atender(EliminarMateria(DB, u, metodo, id))

\* -------------------------------------------------------- the actividades
\* ActividadForm(data, user=u).is_valid(): materia within the user's own,
\* nombre given (categoria and fecha are taken as given well)
\* ActividadForm without the queryset that __init__ gives the materia field
ActividadFormOk_sinFiltro(M, u, materia, nombre) ==
    /\ materia \in DOMAIN M
    /\ nombre # ""
ActividadFormOk(M, u, materia, nombre) ==
    /\ materia \in MisMaterias(M, u)
    /\ nombre # ""

CrearActividad(d, u, metodo, materia, nombre) ==
    login_required(d, u,
        IF metodo # "POST" THEN Res(d, "redirect")
        ELSE IF ActividadFormOk(d.materias, u, materia, nombre)
        THEN Res([d EXCEPT !.actividades = Put(@, d.seq.actividad + 1,
                                               [materia |-> materia]),
                           !.seq.actividad = @ + 1],
                 "ok:crear_actividad")
        ELSE Res(d, "error:crear_actividad"))

EditarActividad(d, u, metodo, id, materia, nombre) ==
    login_required(d, u,
        IF id \notin MisActividades(d.materias, d.actividades, u) THEN Res(d, "404")
        ELSE IF metodo # "POST" THEN Res(d, "redirect")
        ELSE IF ActividadFormOk(d.materias, u, materia, nombre)
        THEN Res([d EXCEPT !.actividades[id].materia = materia], "ok:editar_actividad")
        ELSE Res(d, "error:editar_actividad"))

EliminarActividad(d, u, metodo, id) ==
    login_required(d, u,
        IF id \notin MisActividades(d.materias, d.actividades, u) THEN Res(d, "404")
        ELSE IF metodo # "POST" THEN Res(d, "redirect")
        ELSE Res([d EXCEPT !.actividades = Drop(@, {id}),
                           !.notas = NotasSinActividades(@, {id})],
                 "ok:eliminar_actividad"))

crear_actividad(u, metodo, materia, nombre) ==
    /\ CrearActividad(DB, u, metodo, materia, nombre).resp = "ok:crear_actividad"
           => seq.actividad < MaxActividades
    /\ Atender(CrearActividad(DB, u, metodo, materia, nombre))
editar_actividad(u, metodo, id, materia, nombre) ==
    Atender(EditarActividad(DB, u, metodo, id, materia, nombre))
eliminar_actividad(u, metodo, id) == Atender(EliminarActividad(DB, u, metodo, id))

\* -------------------------------------------------------------- the notas
\* the INSERT of a Nota row
InsertNota(d, a, k, cents) ==
    [d EXCEPT !.notas = Put(@, d.seq.nota + 1,
                            [alumno |-> a, actividad |-> k, nota |-> cents]),
              !.seq.nota = @ + 1]

RegistroDeNotas(d, u, metodo, a, k, s) ==
    login_required(d, u,
        IF metodo # "POST" THEN Res(d, "pagina")
        ELSE LET r == RegistroPost(d.materias, d.alumnos, d.actividades, d.notas,
                                   u, a, k, s)
             IN  IF r = "ok:registro_de_notas" THEN Res(InsertNota(d, a, k, FormDecimal(s)), r)
                 ELSE Res(d, r))

\* editar_nota writing the value with
\* Nota.objects.filter(actividad=nota_obj.actividad).update(nota=...)
EditarNota_deLaActividad(d, u, metodo, id, s) ==
    login_required(d, u,
        IF id \notin MisNotas(d.materias, d.actividades, d.notas, u) THEN Res(d, "404")
        ELSE IF metodo # "POST" THEN Res(d, "redirect")
        ELSE IF EditarNotaPost(s) = "ok:editar_nota"
        THEN Res([d EXCEPT !.notas =
                     [n \in DOMAIN @ |->
                         IF @[n].actividad = @[id].actividad
                         THEN [@[n] EXCEPT !.nota = s.milli \div 10] ELSE @[n]]],
                 "ok:editar_nota")
        ELSE Res(d, EditarNotaPost(s)))
EditarNota(d, u, metodo, id, s) ==
    login_required(d, u,
        IF id \notin MisNotas(d.materias, d.actividades, d.notas, u) THEN Res(d, "404")
        ELSE IF metodo # "POST" THEN Res(d, "redirect")
        ELSE IF EditarNotaPost(s) = "ok:editar_nota"
        THEN Res([d EXCEPT !.notas[id].nota = s.milli \div 10], "ok:editar_nota")
        ELSE Res(d, EditarNotaPost(s)))

\* eliminar_nota looking the row up by id alone
EliminarNota_sinFiltro(d, u, metodo, id) ==
    login_required(d, u,
        IF id \notin DOMAIN d.notas THEN Res(d, "404")
        ELSE IF metodo # "POST" THEN Res(d, "redirect")
        ELSE Res([d EXCEPT !.notas = Drop(@, {id})], "ok:eliminar_nota"))
\* eliminar_nota deleting with
\* Nota.objects.filter(actividad=nota.actividad).delete()
EliminarNota_deLaActividad(d, u, metodo, id) ==
    login_required(d, u,
        IF id \notin MisNotas(d.materias, d.actividades, d.notas, u) THEN Res(d, "404")
        ELSE IF metodo # "POST" THEN Res(d, "redirect")
        ELSE Res([d EXCEPT !.notas = NotasSinActividades(@, {@[id].actividad})],
                 "ok:eliminar_nota"))
EliminarNota(d, u, metodo, id) ==
    login_required(d, u,
        IF id \notin MisNotas(d.materias, d.actividades, d.notas, u) THEN Res(d, "404")
        ELSE IF metodo # "POST" THEN Res(d, "redirect")
        ELSE Res([d EXCEPT !.notas = Drop(@, {id})], "ok:eliminar_nota"))

registro_de_notas(u, metodo, a, k, s) ==
    /\ RegistroDeNotas(DB, u, metodo, a, k, s).resp = "ok:registro_de_notas"
           => seq.nota < MaxNotas
    /\ Atender(RegistroDeNotas(DB, u, metodo, a, k, s))
editar_nota(u, metodo, id, s) == Atender(EditarNota(DB, u, metodo, id, s))
eliminar_nota(u, metodo, id) == Atender(EliminarNota(DB, u, metodo, id))

\* --------------------------------------------------------- the admin site
\* admin.site.register(Alumno): the change form of an Alumno, where a
\* superuser picks the materias among all of them (the field is required)
admin_alumno_change(id, mats) ==
    /\ id \in DOMAIN alumnos
    /\ mats # {}
    /\ mats \subseteq DOMAIN materias
    /\ Atender(Res([DB EXCEPT !.alumnos[id].materias = mats], "admin"))

\* ------------------------------------- registro_de_notas, request by request
\* The POST branch as the database sees it, for a worker w that serves the
\* request while other workers serve theirs: the queries of the manual
\* validation, then those of form.is_valid(), then the INSERT of form.save().
\* settings.py sets no ATOMIC_REQUESTS and the view opens no transaction, so
\* other requests' statements can run between the three.
registro_prevalidar(w, u, a, k, s) ==
    /\ reqs[w].pc = "libre"
    /\ UNCHANGED db
    /\ LET r == PreValidacion(alumnos, actividades, notas, a, k, s)
       IN  IF r = "pasa"
           THEN /\ reqs' = [reqs EXCEPT ![w] =
                               [pc |-> "form", u |-> u, a |-> a, k |-> k, s |-> s]]
                /\ UNCHANGED resp
           ELSE resp' = r /\ UNCHANGED reqs

registro_is_valid(w) ==
    /\ reqs[w].pc = "form"
    /\ UNCHANGED db
    /\ LET q == reqs[w]
           r == NotaFormValidar(materias, alumnos, actividades, notas,
                                q.u, q.a, q.k, q.s)
       IN  IF r = "valido"
           THEN /\ reqs' = [reqs EXCEPT ![w].pc = "save"]
                /\ UNCHANGED resp
           ELSE /\ resp' = r
                /\ reqs' = [reqs EXCEPT ![w] = Libre]

\* what form.save() answers the request that worker w has validated
RespuestaSave(w) ==
    NotaFormSave(alumnos, actividades, notas, reqs[w].a, reqs[w].k,
                 FormDecimal(reqs[w].s))

registro_save(w) ==
    /\ reqs[w].pc = "save"
    /\ UNCHANGED <<materias, alumnos, actividades>>
    /\ resp' = RespuestaSave(w)
    /\ reqs' = [reqs EXCEPT ![w] = Libre]
    /\ IF RespuestaSave(w) = "ok:registro_de_notas"
       THEN /\ seq.nota < MaxNotas
            /\ notas' = InsertNota(DB, reqs[w].a, reqs[w].k,
                                   FormDecimal(reqs[w].s)).notas
            /\ seq' = [seq EXCEPT !.nota = @ + 1]
       ELSE UNCHANGED <<notas, seq>>

\* ----------------------------------------------------- the specifications
\* what a request submits in a form field: a GET carries no form data
Enviado(metodo, valores, blanco) == IF metodo = "POST" THEN valores ELSE {blanco}

\* one request of user u
Peticion(u, metodo) ==
        \/ dashboard(u)
        \/ lista_alumnos(u)
        \/ lista_materias(u)
        \/ \E correo \in Enviado(metodo, Correos, ""),
              mats \in Enviado(metodo, SUBSET MateriaIds, {}) :
               crear_alumno(u, metodo, correo, mats)
        \/ \E id \in AlumnoIds, correo \in Enviado(metodo, Correos, ""),
              mats \in Enviado(metodo, SUBSET MateriaIds, {}) :
               editar_alumno(u, metodo, id, correo, mats)
        \/ \E id \in AlumnoIds : eliminar_alumno(u, metodo, id)
        \/ \E nombre \in Enviado(metodo, Nombres, ""),
              profesor \in Enviado(metodo, Profesores, "") :
               crear_materia(u, metodo, nombre, profesor)
        \/ \E id \in MateriaIds, nombre \in Enviado(metodo, Nombres, ""),
              profesor \in Enviado(metodo, Profesores, "") :
               editar_materia(u, metodo, id, nombre, profesor)
        \/ \E id \in MateriaIds : eliminar_materia(u, metodo, id)
        \/ \E materia \in Enviado(metodo, MateriaIds, SinId),
              nombre \in Enviado(metodo, {"", "n1"}, "") :
               crear_actividad(u, metodo, materia, nombre)
        \/ \E id \in ActividadIds, materia \in Enviado(metodo, MateriaIds, SinId),
              nombre \in Enviado(metodo, {"", "n1"}, "") :
               editar_actividad(u, metodo, id, materia, nombre)
        \/ \E id \in ActividadIds : eliminar_actividad(u, metodo, id)
        \/ \E a \in Enviado(metodo, AlumnoIds \cup {SinId}, SinId),
              k \in Enviado(metodo, ActividadIds \cup {SinId}, SinId),
              s \in Enviado(metodo, NotaStrs, Vacio) :
               registro_de_notas(u, metodo, a, k, s)
        \/ \E id \in NotaIds, s \in Enviado(metodo, NotaStrs, Vacio) :
               editar_nota(u, metodo, id, s)
        \/ \E id \in NotaIds : eliminar_nota(u, metodo, id)

\* the requests of the teachers, one at a time
Next == \E u \in Profesores, metodo \in Metodos : Peticion(u, metodo)

Spec == Init /\ [][Next]_vars

\* the teachers' requests and those of visitors who have not logged in
NextPublico ==
    \E u \in Profesores \cup {AnonymousUser}, metodo \in Metodos : Peticion(u, metodo)

SpecPublico == Init /\ [][NextPublico]_vars

\* The students' views alone, on a database where each teacher has a materia.
InitAlumnos ==
    /\ materias = Put(Put(Vacia, 1, [profesor |-> "T1", nombre |-> "n1"]),
                      2, [profesor |-> "T2", nombre |-> "n1"])
    /\ alumnos = Vacia
    /\ actividades = Vacia
    /\ notas = Vacia
    /\ seq = [materia |-> 2, alumno |-> 0, actividad |-> 0, nota |-> 0]
    /\ reqs = [w \in 1..MaxReq |-> Libre]
    /\ resp = "ninguna"

NextAlumnos ==
    \E u \in Profesores, metodo \in Metodos :
        \/ lista_alumnos(u)
        \/ \E correo \in Enviado(metodo, Correos, ""),
              mats \in Enviado(metodo, SUBSET MateriaIds, {}) :
               crear_alumno_hasta(MaxAlumnosCorreo, u, metodo, correo, mats)
        \/ \E id \in 1..MaxAlumnosCorreo, correo \in Enviado(metodo, Correos, ""),
              mats \in Enviado(metodo, SUBSET MateriaIds, {}) :
               editar_alumno(u, metodo, id, correo, mats)
        \/ \E id \in 1..MaxAlumnosCorreo : eliminar_alumno(u, metodo, id)

SpecAlumnos == InitAlumnos /\ [][NextAlumnos]_vars

\* the teachers' requests and the superuser's
NextAdmin ==
    \/ Next
    \/ \E id \in AlumnoIds, mats \in SUBSET MateriaIds : admin_alumno_change(id, mats)

SpecAdmin == Init /\ [][NextAdmin]_vars

\* Concurrent grade creation.  The database a class is graded in: T1 owns
\* materia 1, alumno 1 is enrolled in it and actividad 1 belongs to it.
NotaStrsConc == {NotaStr("texto", 0), NotaStr("num", 8700), NotaStr("num", 10010)}

InitConc ==
    /\ materias = Put(Vacia, 1, [profesor |-> "T1", nombre |-> "n1"])
    /\ alumnos = Put(Vacia, 1, [correo |-> "c1", materias |-> {1}])
    /\ actividades = Put(Vacia, 1, [materia |-> 1])
    /\ notas = Vacia
    /\ seq = [materia |-> 1, alumno |-> 1, actividad |-> 1, nota |-> 0]
    /\ reqs = [w \in 1..MaxReq |-> Libre]
    /\ resp = "ninguna"

NextConc ==
    \/ \E w \in 1..MaxReq, u \in Profesores, a \in AlumnoIds, k \in ActividadIds,
          s \in NotaStrsConc :
           registro_prevalidar(w, u, a, k, s)
    \/ \E w \in 1..MaxReq : registro_is_valid(w)
    \/ \E w \in 1..MaxReq : registro_save(w)
    \/ \E u \in Profesores, id \in NotaIds : eliminar_nota(u, "POST", id)
    \/ \E u \in Profesores, id \in ActividadIds : eliminar_actividad(u, "POST", id)
    \/ \E u \in Profesores, id \in AlumnoIds : eliminar_alumno(u, "POST", id)

SpecConc == InitConc /\ [][NextConc]_vars

\* The grade views, on a database where T1 teaches a class of
\* MaxAlumnosCorreo students with one activity, and T2 owns a materia.
InitNotas ==
    /\ materias = Put(Put(Vacia, 1, [profesor |-> "T1", nombre |-> "n1"]),
                      2, [profesor |-> "T2", nombre |-> "n1"])
    /\ alumnos = [a \in 1..MaxAlumnosCorreo |->
                     [correo |-> "c" \o ToString(a), materias |-> {1}]]
    /\ actividades = Put(Vacia, 1, [materia |-> 1])
    /\ notas = Vacia
    /\ seq = [materia |-> 2, alumno |-> MaxAlumnosCorreo, actividad |-> 1, nota |-> 0]
    /\ reqs = [w \in 1..MaxReq |-> Libre]
    /\ resp = "ninguna"

NextNotas ==
    \E u \in Profesores, metodo \in Metodos :
        \/ \E a \in Enviado(metodo, 1..MaxAlumnosCorreo, SinId),
              k \in Enviado(metodo, ActividadIds, SinId),
              s \in Enviado(metodo, NotaStrs, Vacio) :
               registro_de_notas(u, metodo, a, k, s)
        \/ \E id \in NotaIds, s \in Enviado(metodo, NotaStrs, Vacio) :
               editar_nota(u, metodo, id, s)
        \/ \E id \in NotaIds : eliminar_nota(u, metodo, id)
        \/ \E id \in ActividadIds : eliminar_actividad(u, metodo, id)
        \/ \E id \in MateriaIds : eliminar_materia(u, metodo, id)

SpecNotas == InitNotas /\ [][NextNotas]_vars

\* ------------------------------------------------------------- the claims
\* C1: every persisted grade has a value v with 0 <= v <= 10, whatever
\* grade creations and grade updates came before.
C1_NotaEnRango ==
    \A n \in DOMAIN notas : 0 <= notas[n].nota /\ notas[n].nota <= 1000
\* a grade at the upper bound is stored and an out-of-range request was
\* just turned down
C1_Witness ==
    /\ resp = "rango"
    /\ \E n \in DOMAIN notas : notas[n].nota = 1000

\* C2: at most one persisted grade per (student, activity) pair, also when
\* grade-creation requests for the same pair are served concurrently.
C2_UnaNotaPorPar ==
    \A n1, n2 \in DOMAIN notas :
        (notas[n1].alumno = notas[n2].alumno
            /\ notas[n1].actividad = notas[n2].actividad) => n1 = n2
\* two requests for the same pair both passed the checks; one is stored and
\* the INSERT of the other was refused
C2_Witness ==
    /\ resp = "inesperado"
    /\ ExisteNota(notas, 1, 1)

\* C3: a request whose INSERT the uniqueness constraint refuses (the pair got
\* its grade after the request's own duplicate check) is answered with the
\* duplicate-grade message of the manual check, and adds no grade.
C3_RechazoDuplicado ==
    [][\A w \in 1..MaxReq :
          (/\ reqs[w].pc = "save"
           /\ ExisteNota(notas, reqs[w].a, reqs[w].k)
           /\ registro_save(w))
          => (resp' = "duplicado" /\ notas' = notas)]_vars

\* C4: for every persisted grade, the grade's student is enrolled in the
\* subject of the grade's activity.
C4_AlumnoInscrito ==
    \A n \in DOMAIN notas :
        actividades[notas[n].actividad].materia \in alumnos[notas[n].alumno].materias

\* the subjects, activities and grades that belong to teacher t
Propio(d, t) ==
    [materias |-> [m \in MisMaterias(d.materias, t) |-> d.materias[m]],
     actividades |-> [k \in MisActividades(d.materias, d.actividades, t) |->
                         d.actividades[k]],
     notas |-> [n \in MisNotas(d.materias, d.actividades, d.notas, t) |-> d.notas[n]]]

\* the answers, on database d, to every request teacher u can make
Respuestas(d, u) ==
    UNION {
        {CrearAlumno(d, u, me, c, ms) : c \in Correos, ms \in SUBSET MateriaIds}
        \cup {EditarAlumno(d, u, me, id, c, ms) :
                id \in AlumnoIds, c \in Correos, ms \in SUBSET MateriaIds}
        \cup {EliminarAlumno(d, u, me, id) : id \in AlumnoIds}
        \cup {CrearMateria(d, u, me, nm, p) : nm \in Nombres, p \in Profesores}
        \cup {EditarMateria(d, u, me, id, nm, p) :
                id \in MateriaIds, nm \in Nombres, p \in Profesores}
        \cup {EliminarMateria(d, u, me, id) : id \in MateriaIds}
        \cup {CrearActividad(d, u, me, m, nm) : m \in MateriaIds, nm \in Nombres}
        \cup {EditarActividad(d, u, me, id, m, nm) :
                id \in ActividadIds, m \in MateriaIds, nm \in Nombres}
        \cup {EliminarActividad(d, u, me, id) : id \in ActividadIds}
        \cup {RegistroDeNotas(d, u, me, a, k, s) :
                a \in AlumnoIds, k \in ActividadIds, s \in NotaStrs}
        \cup {EditarNota(d, u, me, id, s) : id \in NotaIds, s \in NotaStrs}
        \cup {EliminarNota(d, u, me, id) : id \in NotaIds}
      : me \in Metodos }

\* C5: for teachers T1 # T2, no request of T1 creates, changes or deletes a
\* Subject, Activity or Grade that belongs to T2.
C5_SinEfectoAjeno ==
    \A u \in Profesores : \A t \in Profesores \ {u} :
        \A r \in Respuestas(DB, u) : Propio(r.db, t) = Propio(DB, t)

\* the ids of Materias that the context of registro_de_notas carries
MateriasEnContexto(c) ==
    {c.actividad_materia_map[k] : k \in DOMAIN c.actividad_materia_map}
        \cup UNION {c.alumno_materias_map[a] : a \in DOMAIN c.alumno_materias_map}

\* C6: for teachers T1 # T2, what dashboard, lista_alumnos, lista_materias and
\* registro_de_notas (its two maps included) return to T1 holds no Subject,
\* Activity or Grade of T2 and no id of a Subject T2 owns.
C6_SinDatosAjenos ==
    \A u \in Profesores : \A t \in Profesores \ {u} :
        /\ dashboard_contexto(DB, u).materias \cap MisMaterias(materias, t) = {}
        /\ lista_alumnos_contexto(DB, u).materias \cap MisMaterias(materias, t) = {}
        /\ lista_materias_contexto(DB, u).materias \cap MisMaterias(materias, t) = {}
        /\ LET c == registro_de_notas_contexto(DB, u)
           IN  /\ c.notas \cap MisNotas(materias, actividades, notas, t) = {}
               /\ c.actividades \cap MisActividades(materias, actividades, t) = {}
               /\ MateriasEnContexto(c) \cap MisMaterias(materias, t) = {}

\* C7: editar_alumno and eliminar_alumno by teacher T act only on a student of
\* Students(T); for any other student id the answer is not-found and nothing
\* changes.
C7_AlumnoAjeno404 ==
    \A u \in Profesores, me \in Metodos :
        \A id \in AlumnoIds \ MisAlumnos(materias, alumnos, u) :
            /\ EliminarAlumno(DB, u, me, id) = Res(DB, "404")
            /\ \A c \in Correos, ms \in SUBSET MateriaIds :
                   EditarAlumno(DB, u, me, id, c, ms) = Res(DB, "404")

\* C8: for every teacher T and every Subject, Activity or Grade id that exists
\* outside T's scope, editar_materia, eliminar_materia, editar_actividad,
\* eliminar_actividad, editar_nota and eliminar_nota by T answer not-found and
\* leave the database as it was.
C8_Ajeno404 ==
    \A u \in Profesores, me \in Metodos :
        /\ \A id \in DOMAIN materias \ MisMaterias(materias, u) :
               /\ EliminarMateria(DB, u, me, id) = Res(DB, "404")
               /\ \A nm \in Nombres, p \in Profesores :
                      EditarMateria(DB, u, me, id, nm, p) = Res(DB, "404")
        /\ \A id \in DOMAIN actividades \ MisActividades(materias, actividades, u) :
               /\ EliminarActividad(DB, u, me, id) = Res(DB, "404")
               /\ \A m \in MateriaIds, nm \in Nombres :
                      EditarActividad(DB, u, me, id, m, nm) = Res(DB, "404")
        /\ \A id \in DOMAIN notas \ MisNotas(materias, actividades, notas, u) :
               /\ EliminarNota(DB, u, me, id) = Res(DB, "404")
               /\ \A s \in NotaStrs : EditarNota(DB, u, me, id, s) = Res(DB, "404")
\* a teacher has just been answered not-found while the other teacher owns a
\* subject with an activity and a grade on it
C8_Witness ==
    /\ resp = "404"
    /\ \E t \in Profesores : MisNotas(materias, actividades, notas, t) # {}

\* the database without alumno a, and without actividad k
SinAlumno(d, a) ==
    [d EXCEPT !.alumnos = Drop(@, {a}), !.notas = NotasSinAlumno(@, a)]
SinActividad(d, k) ==
    [d EXCEPT !.actividades = Drop(@, {k}), !.notas = NotasSinActividades(@, {k})]

\* C9: a grade-creation request of teacher T that names a student or an
\* activity existing outside T's scope is answered as the same request is
\* when that id does not exist, and stores nothing either way.
C9_AjenoComoInexistente ==
    \A u \in Profesores, a \in AlumnoIds, k \in ActividadIds, s \in NotaStrs :
        /\ a \in DOMAIN alumnos \ MisAlumnos(materias, alumnos, u)
            => /\ RegistroDeNotas(DB, u, "POST", a, k, s).resp
                    = RegistroDeNotas(SinAlumno(DB, a), u, "POST", a, k, s).resp
               /\ RegistroDeNotas(DB, u, "POST", a, k, s).db = DB
        /\ k \in DOMAIN actividades \ MisActividades(materias, actividades, u)
            => /\ RegistroDeNotas(DB, u, "POST", a, k, s).resp
                    = RegistroDeNotas(SinActividad(DB, k), u, "POST", a, k, s).resp
               /\ RegistroDeNotas(DB, u, "POST", a, k, s).db = DB

\* every Grade references an existing Activity and an existing Student, and
\* every Activity an existing Subject
Referencias(d) ==
    /\ \A n \in DOMAIN d.notas :
           /\ d.notas[n].actividad \in DOMAIN d.actividades
           /\ d.notas[n].alumno \in DOMAIN d.alumnos
    /\ \A k \in DOMAIN d.actividades : d.actividades[k].materia \in DOMAIN d.materias

\* C10: eliminar_materia on a subject S of the teacher succeeds and leaves no
\* Activity of S and no Grade on an Activity of S; and in every state every
\* Grade references an existing Activity and Student and every Activity an
\* existing Subject.
C10_Cascada ==
    /\ Referencias(DB)
    /\ \A u \in Profesores : \A id \in MisMaterias(materias, u) :
           LET r == EliminarMateria(DB, u, "POST", id)
           IN  /\ r.resp = "ok:eliminar_materia"
               /\ id \notin DOMAIN r.db.materias
               /\ ActividadesDeMateria(r.db.actividades, id) = {}
               /\ \A n \in DOMAIN r.db.notas :
                      r.db.notas[n].actividad
                          \notin ActividadesDeMateria(actividades, id)
\* a subject that had an activity with a grade on it has just been deleted:
\* ids were given out in the three tables and none of the rows is left
C10_Witness ==
    /\ resp = "ok:eliminar_materia"
    /\ seq.actividad >= 1 /\ seq.nota >= 1
    /\ alumnos # Vacia
    /\ actividades = Vacia /\ notas = Vacia

\* the student a is not enrolled in the subject of activity k
NoInscrito(a, k) ==
    /\ a \in DOMAIN alumnos
    /\ k \in DOMAIN actividades
    /\ actividades[k].materia \notin alumnos[a].materias
\* the submitted value is a number outside [0, 10]
FueraDeRango(s) == s.t = "num" /\ (s.milli < 0 \/ s.milli > 10000)

\* C11 as stated: a grade-creation request for a student who is not enrolled in
\* the activity's subject is rejected with the not-enrolled reason for every
\* submitted value, and no grade is persisted.
C11_NoInscritoSiempre ==
    \A u \in Profesores, a \in AlumnoIds, k \in ActividadIds, s \in NotaStrs :
        NoInscrito(a, k)
            => RegistroDeNotas(DB, u, "POST", a, k, s) = Res(DB, "no_inscrito")
\* C11 amended: such a request is rejected for every submitted value and no
\* grade is persisted; the reason is the range reason when the value is a number
\* outside [0, 10], else the duplicate reason when the pair already has a grade,
\* else the not-enrolled reason.
C11_NoInscritoRechazado ==
    \A u \in Profesores, a \in AlumnoIds, k \in ActividadIds, s \in NotaStrs :
        NoInscrito(a, k)
            => RegistroDeNotas(DB, u, "POST", a, k, s)
                   = Res(DB, IF FueraDeRango(s) THEN "rango"
                             ELSE IF ExisteNota(notas, a, k) THEN "duplicado"
                             ELSE "no_inscrito")
\* a request for a student who is not enrolled has just been turned down for
\* that reason
C11_Witness ==
    /\ resp = "no_inscrito"
    /\ \E a \in AlumnoIds, k \in ActividadIds : NoInscrito(a, k)

\* the submitted value does not parse as a number
NoNumero(s) == s.t \in {"vacio", "texto"}

\* C12: grade creation checks (1) the value parses, (2) 0 <= value <= 10, (3)
\* the pair has no grade, (4) the student is enrolled, in this order, and the
\* reason reported is that of the first check that fails: never the reason of
\* a later check when an earlier one fails.
C12_OrdenDeChequeos ==
    \A u \in Profesores, a \in AlumnoIds, k \in ActividadIds, s \in NotaStrs :
        LET r == RegistroDeNotas(DB, u, "POST", a, k, s).resp
        IN  /\ NoNumero(s) => r \notin {"rango", "duplicado", "no_inscrito"}
            /\ FueraDeRango(s) => r \notin {"duplicado", "no_inscrito"}
            /\ ExisteNota(notas, a, k) => r # "no_inscrito"

\* the request of teacher u stores the grade s for the pair (a, k)
Persistida(r, a, k, s) ==
    \E n \in DOMAIN r.db.notas \ DOMAIN notas :
        r.db.notas[n] = [alumno |-> a, actividad |-> k, nota |-> s.milli \div 10]
\* the pair (a, k) is one teacher u may grade and has not graded yet
Calificable(u, a, k) ==
    /\ a \in MisAlumnos(materias, alumnos, u)
    /\ k \in MisActividades(materias, actividades, u)
    /\ actividades[k].materia \in alumnos[a].materias
    /\ ~ExisteNota(notas, a, k)

\* C13 as stated: for a pair the teacher may grade and has not graded yet, the
\* grade is persisted if and only if the value v satisfies 0 <= v <= 10.
C13_PersistidaSiiEnRango ==
    \A u \in Profesores, a \in AlumnoIds, k \in ActividadIds, s \in NotaStrs :
        Calificable(u, a, k)
            => (Persistida(RegistroDeNotas(DB, u, "POST", a, k, s), a, k, s)
                  <=> (s.t = "num" /\ 0 <= s.milli /\ s.milli <= 10000))
\* C13 amended: the grade is persisted if and only if the value is a number
\* with at most two decimal places and 0 <= v <= 10, both bounds accepted.
C13_PersistidaSiiDosDecimales ==
    \A u \in Profesores, a \in AlumnoIds, k \in ActividadIds, s \in NotaStrs :
        Calificable(u, a, k)
            => (Persistida(RegistroDeNotas(DB, u, "POST", a, k, s), a, k, s)
                  <=> (/\ s.t = "num"
                       /\ 0 <= s.milli /\ s.milli <= 10000
                       /\ s.milli % 10 = 0))
\* the upper bound 10 has just been stored as a grade
C13_Witness ==
    /\ resp = "ok:registro_de_notas"
    /\ \E n \in DOMAIN notas : notas[n].nota = 1000

\* C14: editar_nota by the owning teacher is applied if and only if the new
\* value is in [0, 10] (here: for values written with at most two decimals),
\* whether or not the student is still enrolled, and is never answered as a
\* duplicate.
C14_EditarSiiEnRango ==
    \A u \in Profesores, s \in NotaStrs :
        \A id \in MisNotas(materias, actividades, notas, u) :
            LET r == EditarNota(DB, u, "POST", id, s)
            IN  /\ r.resp # "duplicado"
                /\ (s.t = "num" /\ s.milli % 10 = 0)
                     => IF 0 <= s.milli /\ s.milli <= 10000
                        THEN /\ r.resp = "ok:editar_nota"
                             /\ r.db = [DB EXCEPT !.notas[id].nota = s.milli \div 10]
                        ELSE r.db = DB

\* the responses that report a success
Exitos ==
    {"ok:crear_alumno", "ok:editar_alumno", "ok:eliminar_alumno",
     "ok:crear_materia", "ok:editar_materia", "ok:eliminar_materia",
     "ok:crear_actividad", "ok:editar_actividad", "ok:eliminar_actividad",
     "ok:registro_de_notas", "ok:editar_nota", "ok:eliminar_nota"}

\* C15: every create or update request that fails ends in a rejection reported
\* to its caller, never in an unhandled error, and leaves the database as it
\* was.
C15_SinErrorNoManejado ==
    \A u \in Profesores : \A r \in Respuestas(DB, u) :
        /\ r.resp # "500"
        /\ r.resp \notin Exitos => r.db = DB

\* C16: the Subject that crear_materia by teacher T creates is owned by T
\* whatever owner the request carried, and neither crear_materia nor
\* editar_materia changes the owner of a Subject that exists; every Subject
\* has a teacher as its owner.
C16_ProfesorDeMateria ==
    /\ \A m \in DOMAIN materias : materias[m].profesor \in Profesores
    /\ \A u \in Profesores, me \in Metodos, nm \in Nombres, p \in Profesores :
           /\ LET r == CrearMateria(DB, u, me, nm, p)
              IN  \A m \in DOMAIN r.db.materias :
                      r.db.materias[m].profesor
                          = IF m \in DOMAIN materias THEN materias[m].profesor ELSE u
           /\ \A id \in MateriaIds :
                  LET r == EditarMateria(DB, u, me, id, nm, p)
                  IN  /\ DOMAIN r.db.materias = DOMAIN materias
                      /\ \A m \in DOMAIN materias :
                             r.db.materias[m].profesor = materias[m].profesor
\* a subject has just been created and each teacher owns one
C16_Witness ==
    /\ resp = "ok:crear_materia"
    /\ \A u \in Profesores : MisMaterias(materias, u) # {}

\* C17: crear_alumno and editar_alumno by teacher T reject, with no change, a
\* submission whose memberships hold a subject T does not own; the memberships
\* a request of T adds are subjects of T.
C17_MateriasPropias ==
    \A u \in Profesores, me \in Metodos, c \in Correos, ms \in SUBSET MateriaIds :
        /\ ~(ms \subseteq MisMaterias(materias, u))
             => /\ CrearAlumno(DB, u, me, c, ms).db = DB
                /\ CrearAlumno(DB, u, me, c, ms).resp # "ok:crear_alumno"
                /\ \A id \in AlumnoIds :
                       /\ EditarAlumno(DB, u, me, id, c, ms).db = DB
                       /\ EditarAlumno(DB, u, me, id, c, ms).resp # "ok:editar_alumno"
        /\ \A r \in {CrearAlumno(DB, u, me, c, ms)}
                     \cup {EditarAlumno(DB, u, me, id, c, ms) : id \in AlumnoIds} :
               \A a \in DOMAIN r.db.alumnos :
                   (r.db.alumnos[a].materias
                       \ (IF a \in DOMAIN alumnos THEN alumnos[a].materias ELSE {}))
                     \subseteq MisMaterias(materias, u)
\* a student form has just been refused while the student's teacher could
\* have named a subject of the other teacher
C17_Witness ==
    /\ resp \in {"error:crear_alumno", "form_error"}
    /\ \E u \in Profesores :
           /\ MisAlumnos(materias, alumnos, u) # {}
           /\ DOMAIN materias \ MisMaterias(materias, u) # {}

\* C18: every list, create, update and delete request that carries no
\* authenticated teacher is answered with the redirect to the login page and
\* changes nothing.
C18_LoginRequerido ==
    \A r \in Respuestas(DB, AnonymousUser)
              \cup {Dashboard(DB, AnonymousUser), ListaAlumnos(DB, AnonymousUser),
                    ListaMaterias(DB, AnonymousUser)} :
        r = Res(DB, "login")
\* a visitor has just been sent to the login page while the database holds a
\* grade
C18_Witness ==
    /\ resp = "login"
    /\ notas # Vacia

\* C19: no two students have the same email; a create or an edit that would
\* give a student an email another student holds, in the acting teacher's
\* scope or not, is rejected and changes nothing.
C19_CorreoUnico ==
    /\ \A a, b \in DOMAIN alumnos : alumnos[a].correo = alumnos[b].correo => a = b
    /\ \A u \in Profesores, c \in Correos, ms \in SUBSET MateriaIds :
           /\ (\E a \in DOMAIN alumnos : alumnos[a].correo = c)
                => /\ CrearAlumno(DB, u, "POST", c, ms).db = DB
                   /\ CrearAlumno(DB, u, "POST", c, ms).resp = "error:crear_alumno"
           /\ \A id \in DOMAIN alumnos :
                  (\E a \in DOMAIN alumnos \ {id} : alumnos[a].correo = c)
                    => /\ EditarAlumno(DB, u, "POST", id, c, ms).db = DB
                       /\ EditarAlumno(DB, u, "POST", id, c, ms).resp = "form_error"
\* an edit has just been refused while two teachers each have a student
C19_Witness ==
    /\ resp = "form_error"
    /\ \A u \in Profesores : MisAlumnos(materias, alumnos, u) # {}

\* the owner of a subject, and the students enrolled in some subject of u
Owner(m) == materias[m].profesor
Inscritos(u) ==
    {a \in DOMAIN alumnos :
        \E m \in alumnos[a].materias : m \in DOMAIN materias /\ Owner(m) = u}

\* C20: for every teacher T the list views return exactly the derived sets:
\* lista_materias the subjects T owns; lista_alumnos and the count of the
\* dashboard the students enrolled in some subject of T, each once;
\* registro_de_notas the activities whose subject T owns and the grades on
\* those activities.
C20_ListasExactas ==
    \A u \in Profesores :
        /\ lista_materias_contexto(DB, u).materias
               = {m \in DOMAIN materias : Owner(m) = u}
        /\ lista_alumnos_contexto(DB, u).alumnos = Inscritos(u)
        /\ dashboard_contexto(DB, u).total_alumnos = Cardinality(Inscritos(u))
        /\ registro_de_notas_contexto(DB, u).actividades
               = {k \in DOMAIN actividades : Owner(actividades[k].materia) = u}
        /\ registro_de_notas_contexto(DB, u).notas
               = {n \in DOMAIN notas :
                     Owner(actividades[notas[n].actividad].materia) = u}
\* a list page has just been rendered for a teacher who has a student enrolled
\* in two of the teacher's subjects
C20_Witness ==
    /\ resp = "pagina"
    /\ \E u \in Profesores, a \in DOMAIN alumnos :
           Cardinality(alumnos[a].materias \cap MisMaterias(materias, u)) = 2

\* C21: a grade-creation request runs as one atomic step: no other request
\* inserts a grade for its (student, activity) pair between its duplicate check
\* and its own insert, so a request that has passed the duplicate check and
\* has not yet inserted never finds its pair graded.
C21_CreacionAtomica ==
    \A w \in 1..MaxReq :
        reqs[w].pc \in {"form", "save"}
            => ~ExisteNota(notas, reqs[w].a, reqs[w].k)

\* C22: a grade that registro_de_notas creates for teacher T has its student
\* in Students(T) and its activity in Activities(T); a request that names a
\* student or an activity outside those sets stores nothing.
C22_NotaEnAlcance ==
    \A u \in Profesores, a \in AlumnoIds \cup {SinId}, k \in ActividadIds \cup {SinId},
       s \in NotaStrs :
        LET r == RegistroDeNotas(DB, u, "POST", a, k, s)
        IN  /\ (\/ a \notin MisAlumnos(materias, alumnos, u)
                \/ k \notin MisActividades(materias, actividades, u))
                 => r.db = DB
            /\ \A n \in DOMAIN r.db.notas \ DOMAIN notas :
                   /\ r.db.notas[n].alumno \in MisAlumnos(materias, alumnos, u)
                   /\ r.db.notas[n].actividad
                          \in MisActividades(materias, actividades, u)
\* the form has just refused a request while some teacher could name a pair
\* outside the teacher's scope, enrolled and not yet graded
C22_Witness ==
    /\ resp = "form_error"
    /\ notas = Vacia
    /\ \E u \in Profesores, a \in DOMAIN alumnos, k \in DOMAIN actividades :
           /\ a \notin MisAlumnos(materias, alumnos, u)
           /\ k \notin MisActividades(materias, actividades, u)
           /\ actividades[k].materia \in alumnos[a].materias

\* C23: after crear_actividad or editar_actividad by teacher T succeeds the
\* activity's subject is owned by T; a submission that names a subject of
\* another teacher is rejected and changes nothing.
C23_ActividadEnMateriaPropia ==
    \A u \in Profesores, me \in Metodos, m \in MateriaIds, nm \in Nombres :
        /\ LET r == CrearActividad(DB, u, me, m, nm)
           IN  /\ \A k \in DOMAIN r.db.actividades \ DOMAIN actividades :
                      Owner(r.db.actividades[k].materia) = u
               /\ (m \in DOMAIN materias /\ Owner(m) # u /\ me = "POST")
                    => r = Res(DB, "error:crear_actividad")
        /\ \A id \in MisActividades(materias, actividades, u) :
               LET r == EditarActividad(DB, u, me, id, m, nm)
               IN  /\ r.resp = "ok:editar_actividad"
                        => Owner(r.db.actividades[id].materia) = u
                   /\ (m \in DOMAIN materias /\ Owner(m) # u /\ me = "POST")
                        => r = Res(DB, "error:editar_actividad")
\* an activity form has just been refused while the teacher who owns an
\* activity could have named a subject of the other teacher
C23_Witness ==
    /\ resp = "error:editar_actividad"
    /\ \E u \in Profesores :
           /\ MisActividades(materias, actividades, u) # {}
           /\ DOMAIN materias \ MisMaterias(materias, u) # {}

\* C24: a request with a method other than POST to crear_alumno,
\* eliminar_alumno, crear_materia, editar_materia, eliminar_materia,
\* crear_actividad, editar_actividad, eliminar_actividad, editar_nota or
\* eliminar_nota leaves the database as it was.
C24_SoloPostCambia ==
    \A u \in Profesores :
        /\ \A c \in Correos, ms \in SUBSET MateriaIds :
               CrearAlumno(DB, u, "GET", c, ms).db = DB
        /\ \A id \in AlumnoIds : EliminarAlumno(DB, u, "GET", id).db = DB
        /\ \A nm \in Nombres, p \in Profesores :
               /\ CrearMateria(DB, u, "GET", nm, p).db = DB
               /\ \A id \in MateriaIds : EditarMateria(DB, u, "GET", id, nm, p).db = DB
        /\ \A id \in MateriaIds : EliminarMateria(DB, u, "GET", id).db = DB
        /\ \A m \in MateriaIds, nm \in Nombres :
               /\ CrearActividad(DB, u, "GET", m, nm).db = DB
               /\ \A id \in ActividadIds :
                      EditarActividad(DB, u, "GET", id, m, nm).db = DB
        /\ \A id \in ActividadIds : EliminarActividad(DB, u, "GET", id).db = DB
        /\ \A id \in NotaIds :
               /\ EliminarNota(DB, u, "GET", id).db = DB
               /\ \A s \in NotaStrs : EditarNota(DB, u, "GET", id, s).db = DB
\* a request that was no POST has just been redirected while the database
\* holds a student with a grade
C24_Witness ==
    /\ resp = "redirect"
    /\ notas # Vacia

\* C25: when teacher T1 edits a student of hers who is also enrolled in
\* subjects of another teacher T2, the student's memberships in T2's subjects
\* are the same after the edit.
C25_MembresiasAjenasIntactas ==
    \A u \in Profesores, c \in Correos, ms \in SUBSET MateriaIds :
        \A id \in MisAlumnos(materias, alumnos, u) :
            \A t \in Profesores \ {u} :
                EditarAlumno(DB, u, "POST", id, c, ms).db.alumnos[id].materias
                        \cap MisMaterias(materias, t)
                    = alumnos[id].materias \cap MisMaterias(materias, t)

\* C26: every persisted student is enrolled in at least one subject.
C26_AlumnoConMateria ==
    \A a \in DOMAIN alumnos : alumnos[a].materias \cap DOMAIN materias # {}

\* C27: a successful editar_nota changes the numeric value of the targeted
\* grade and nothing else: its student and activity, every other grade, and
\* all subjects, students, activities and memberships stay as they were.
C27_EditarNotaSoloValor ==
    \A u \in Profesores, id \in NotaIds, s \in NotaStrs :
        LET r == EditarNota(DB, u, "POST", id, s)
        IN  r.resp = "ok:editar_nota"
              => /\ r.db.materias = materias
                 /\ r.db.alumnos = alumnos
                 /\ r.db.actividades = actividades
                 /\ DOMAIN r.db.notas = DOMAIN notas
                 /\ r.db.notas[id].alumno = notas[id].alumno
                 /\ r.db.notas[id].actividad = notas[id].actividad
                 /\ r.db.notas[id].nota = s.milli \div 10
                 /\ \A n \in DOMAIN notas \ {id} : r.db.notas[n] = notas[n]
\* a grade has just been updated while another grade exists
C27_Witness ==
    /\ resp = "ok:editar_nota"
    /\ Cardinality(DOMAIN notas) = 2
    /\ \E n1, n2 \in DOMAIN notas : notas[n1].nota # notas[n2].nota

\* the rows of table f other than those with a key in ks
Resto(f, ks) == [i \in DOMAIN f \ ks |-> f[i]]

\* C28: a delete removes its target and the target's dependents and nothing
\* else: eliminar_nota that grade; eliminar_actividad that activity and the
\* grades on it; eliminar_materia that subject, its activities, their grades
\* and the memberships in it.
C28_BorradoExacto ==
    \A u \in Profesores :
        /\ \A id \in MisNotas(materias, actividades, notas, u) :
               LET r == EliminarNota(DB, u, "POST", id)
               IN  /\ r.db.notas = Resto(notas, {id})
                   /\ r.db.materias = materias /\ r.db.alumnos = alumnos
                   /\ r.db.actividades = actividades
        /\ \A id \in MisActividades(materias, actividades, u) :
               LET r == EliminarActividad(DB, u, "POST", id)
               IN  /\ r.db.actividades = Resto(actividades, {id})
                   /\ r.db.notas
                          = Resto(notas, {n \in DOMAIN notas : notas[n].actividad = id})
                   /\ r.db.materias = materias /\ r.db.alumnos = alumnos
        /\ \A id \in MisMaterias(materias, u) :
               LET r == EliminarMateria(DB, u, "POST", id)
                   ks == {k \in DOMAIN actividades : actividades[k].materia = id}
               IN  /\ r.db.materias = Resto(materias, {id})
                   /\ r.db.actividades = Resto(actividades, ks)
                   /\ r.db.notas
                          = Resto(notas, {n \in DOMAIN notas : notas[n].actividad \in ks})
                   /\ DOMAIN r.db.alumnos = DOMAIN alumnos
                   /\ \A a \in DOMAIN alumnos :
                          /\ r.db.alumnos[a].correo = alumnos[a].correo
                          /\ r.db.alumnos[a].materias = alumnos[a].materias \ {id}
\* one grade has just been deleted and the other one is still there
C28_Witness ==
    /\ resp = "ok:eliminar_nota"
    /\ seq.nota = 2
    /\ Cardinality(DOMAIN notas) = 1

====
